---- MODULE Spec2Model ----
(***************************************************************************)
(* A model of the htsget index-resolution pipeline:                        *)
(*   - chunksRequest.handle          (api/chunks.go)                       *)
(*   - bcf.Read, bcf.GetReferenceID  (internal/bcf)                        *)
(*   - csi.BinsForRange, csi.RegionContainsBin (internal/csi, common)      *)
(*   - bgzf.Merge                    (not part of the sources at hand;     *)
(*                                    modelled from the specification)     *)
(* Each component has its own specification (SpecHandle, SpecRead,         *)
(* SpecBins, SpecFilter, SpecRef); the variables of the other components   *)
(* stay at their idle values.                                              *)
(***************************************************************************)
EXTENDS Integers, Sequences, FiniteSets, TLC

VARIABLES
    \* ---- chunksRequest.handle ----
    indexObjects,    \* req.indexObjects: per candidate, whether NewReader succeeds
    blockSizeLimit,  \* req.blockSizeLimit
    readOutcome,     \* what req.read answered: NotRead, an error or a chunk list
    hpc,             \* position inside handle
    object,          \* position of the range loop over req.indexObjects
    index,           \* local "index": the stream held (candidate number) or NilReader
    err,             \* local "err": NoError or the error of a candidate
    opened,          \* candidates on which NewReader was called, in call order
    readWith,        \* streams req.read was invoked with, in call order
    merged,          \* inputs bgzf.Merge was applied to, in call order
    closed,          \* receivers of the deferred index.Close()
    result           \* what handle returned

handleVars == <<indexObjects, blockSizeLimit, readOutcome, hpc, object, index,
                err, opened, readWith, merged, closed, result>>

VARIABLES
    \* ---- csi.BinsForRange and csi.RegionContainsBin, applied to drawn inputs ----
    binsIn,          \* arguments of BinsForRange: start, end, minShift, depth
    binsOut,         \* NotApplied, or the slice BinsForRange returned
    filterIn,        \* arguments of RegionContainsBin: region, referenceID, binID, bins
    filterOut        \* NotApplied, or the boolean RegionContainsBin returned

pureVars == <<binsIn, binsOut, filterIn, filterOut>>

VARIABLES
    \* ---- bcf.Read ----
    region,          \* the region argument
    rpc,             \* position inside Read
    shape,           \* minShift and depth as read from the index
    bins,            \* local "bins"
    refCount,        \* local "refCount"
    reference,       \* loop variable "reference"
    binCount,        \* local "binCount"
    j,               \* loop variable "j"
    bin,             \* local "bin": ID, Offset, Chunks
    includeChunks,   \* local "includeChunks"
    k,               \* loop variable "k"
    chunks,          \* local "chunks"; its first element is the header chunk
    seen             \* the chunk records read from the index so far, in file order

readVars == <<region, rpc, shape, bins, refCount, reference, binCount, j, bin,
              includeChunks, k, chunks, seen>>

VARIABLES
    \* ---- bcf.GetReferenceID ----
    headerText,      \* the decompressed bytes that follow the header length
    length,          \* the declared header length
    referenceName,   \* the referenceName argument
    gpc,             \* position inside GetReferenceID
    scanned,         \* number of lines the scanner has returned
    id,              \* local "id"
    contigsFound,    \* local "contigsFound"
    refResult        \* what GetReferenceID returned

refVars == <<headerText, length, referenceName, gpc, scanned, id, contigsFound,
             refResult>>

vars == <<handleVars, pureVars, readVars, refVars>>

(***************************************************************************)
(* Bounds of the model.                                                    *)
(***************************************************************************)
MaxCandidates == 2      \* longest req.indexObjects explored
MaxAddress == 3         \* virtual offsets explored are 0..MaxAddress
MaxDecoded == 3         \* longest chunk list the decoder hands to handle
MaxLimit == 1           \* largest blockSizeLimit explored

Min(a, b) == IF a <= b THEN a ELSE b
Max(a, b) == IF a >= b THEN a ELSE b
Range(s) == {s[i] : i \in 1..Len(s)}
SeqsUpTo(S, n) == UNION {[1..m -> S] : m \in 0..n}

(***************************************************************************)
(* bgzf.Chunk and bgzf.Merge                                               *)
(***************************************************************************)
Chunk(start, end) == [Start |-> start, End |-> end]

\* Chunks are ordered by start offset, ties broken by end offset.
ChunkBefore(a, b) == a.Start < b.Start \/ (a.Start = b.Start /\ a.End <= b.End)

RECURSIVE InsertSorted(_, _)
InsertSorted(c, s) ==
    IF s = <<>> THEN <<c>>
    ELSE IF ChunkBefore(c, Head(s)) THEN <<c>> \o s
    ELSE <<Head(s)>> \o InsertSorted(c, Tail(s))

RECURSIVE SortChunks(_)
SortChunks(s) == IF s = <<>> THEN <<>> ELSE InsertSorted(Head(s), SortChunks(Tail(s)))

\* The next chunk is merged into the open one when its start is within
\* maxSpan of the open chunk's end.
Mergeable(cur, next, maxSpan) == next.Start <= cur.End + maxSpan

RECURSIVE MergeWalk(_, _, _)
MergeWalk(cur, rest, maxSpan) ==
    IF rest = <<>> THEN <<cur>>
    ELSE IF Mergeable(cur, Head(rest), maxSpan)
         THEN MergeWalk(Chunk(cur.Start, Max(cur.End, Head(rest).End)), Tail(rest), maxSpan)
         ELSE <<cur>> \o MergeWalk(Head(rest), Tail(rest), maxSpan)

Merge(cs, maxSpan) ==
    IF cs = <<>> THEN <<>>
    ELSE LET sorted == SortChunks(cs)
         IN  MergeWalk(Head(sorted), Tail(sorted), maxSpan)

(***************************************************************************)
(* chunksRequest.handle                                                    *)
(***************************************************************************)
\* A *storage.Reader is named by the candidate it was opened on; 0 is nil.
NilReader == [reader |-> 0]
\* An open error is named by the candidate that failed; 0 is the nil error.
NoError == [openFailed |-> 0]
NoResult == [kind |-> "none"]

\* object.NewReader(ctx) of candidate i: (stream, nil) or (nil, error).
NewReaderIndex(i) == IF indexObjects[i] THEN [reader |-> i] ELSE NilReader
NewReaderErr(i) == IF indexObjects[i] THEN NoError ELSE [openFailed |-> i]

\* newStorageError("opening index", err)
newStorageError(e) == [kind |-> "storageError", wraps |-> e]
\* A variant that loses the decode error it was given.
readingIndexErrorDropped(e) == [kind |-> "readError", wraps |-> ""]
\* fmt.Errorf("reading index: %v", err)
readingIndexError(e) == [kind |-> "readError", wraps |-> e]
\* A variant that returns the decoder's list as it is.
handleReturnUnmerged(cs, limit) == [kind |-> "ok", chunks |-> cs]
\* return bgzf.Merge(chunks, req.blockSizeLimit), nil
handleReturn(cs, limit) == [kind |-> "ok", chunks |-> Merge(cs, limit)]

Addresses == 0..MaxAddress
DecodedChunks == {c \in {Chunk(s, e) : s \in Addresses, e \in Addresses} : c.Start <= c.End}
NotRead == [ok |-> FALSE, err |-> "", chunks |-> <<>>]
ReadOutcomes ==
    {[ok |-> FALSE, err |-> "decode", chunks |-> <<>>]}
    \cup {[ok |-> TRUE, err |-> "", chunks |-> c] : c \in SeqsUpTo(DecodedChunks, MaxDecoded)}

\* The state in which handle is not running (the other specifications).
HandleIdle ==
    /\ indexObjects = <<>>
    /\ blockSizeLimit = 0
    /\ readOutcome = NotRead
    /\ hpc = "idle"
    /\ object = 1
    /\ index = NilReader
    /\ err = NoError
    /\ opened = <<>>
    /\ readWith = <<>>
    /\ merged = <<>>
    /\ closed = <<>>
    /\ result = NoResult

HandleInit ==
    /\ indexObjects \in SeqsUpTo(BOOLEAN, MaxCandidates)
    /\ blockSizeLimit \in 0..MaxLimit
    /\ readOutcome = NotRead
    /\ hpc = "loop"
    /\ object = 1
    /\ index = NilReader
    /\ err = NoError
    /\ opened = <<>>
    /\ readWith = <<>>
    /\ merged = <<>>
    /\ closed = <<>>
    /\ result = NoResult

\* One iteration of "for _, object := range req.indexObjects".
HandleOpen ==
    /\ hpc = "loop"
    /\ object <= Len(indexObjects)
    /\ opened' = Append(opened, object)
    /\ index' = NewReaderIndex(object)
    /\ err' = NewReaderErr(object)
    /\ IF NewReaderErr(object) = NoError
       THEN /\ hpc' = "check"            \* break
            /\ object' = object
       ELSE /\ hpc' = "loop"
            /\ object' = object + 1
    /\ UNCHANGED <<indexObjects, blockSizeLimit, readOutcome, readWith, merged,
                   closed, result>>
    /\ UNCHANGED <<pureVars, readVars, refVars>>

\* The range loop runs out of candidates.
HandleLoopEnd ==
    /\ hpc = "loop"
    /\ object > Len(indexObjects)
    /\ hpc' = "check"
    /\ UNCHANGED <<indexObjects, blockSizeLimit, readOutcome, object, index, err,
                   opened, readWith, merged, closed, result>>
    /\ UNCHANGED <<pureVars, readVars, refVars>>

\* "if err != nil { return nil, newStorageError(...) }"; otherwise the Close
\* of index is deferred and the decoder is called next.
HandleCheck ==
    /\ hpc = "check"
    /\ IF err # NoError
       THEN /\ result' = newStorageError(err)
            /\ hpc' = "done"
       ELSE /\ result' = result
            /\ hpc' = "read"
    /\ UNCHANGED <<indexObjects, blockSizeLimit, readOutcome, object, index, err,
                   opened, readWith, merged, closed>>
    /\ UNCHANGED <<pureVars, readVars, refVars>>

\* req.read(index, req.region), the error test, bgzf.Merge and the deferred
\* index.Close().  A decoder handed the nil reader dereferences it: the run
\* ends in a panic.
HandleRead ==
    /\ hpc = "read"
    /\ readWith' = Append(readWith, index)
    /\ closed' = Append(closed, index)
    /\ hpc' = "done"
    /\ IF index = NilReader
       THEN /\ result' = [kind |-> "panic"]
            /\ readOutcome' = readOutcome
            /\ merged' = merged
       ELSE \E out \in ReadOutcomes :
            /\ readOutcome' = out
            /\ IF ~out.ok
               THEN /\ result' = readingIndexError(out.err)
                    /\ merged' = merged
               ELSE /\ result' = handleReturn(out.chunks, blockSizeLimit)
                    /\ merged' = Append(merged, out.chunks)
    /\ UNCHANGED <<indexObjects, blockSizeLimit, object, index, err, opened>>
    /\ UNCHANGED <<pureVars, readVars, refVars>>

HandleNext == HandleOpen \/ HandleLoopEnd \/ HandleCheck \/ HandleRead

(***************************************************************************)
(* csi.BinsForRange and csi.RegionContainsBin                              *)
(* (internal/common/common.go and the csi copy hold the same code)         *)
(***************************************************************************)
maximumReadLength == 536870912
MetadataBeanID == 37450
\* The number of values of a uint16, the element type of the returned slice.
Uint16Values == 65536

\* uint16(i)
ToUint16(i) == i % Uint16Values

\* x >> s on a uint: x is below 2^31 in every state explored, so a shift
\* count above 30 leaves 0, as a count of 64 or more does in Go.
Shr(x, s) == IF s > 30 THEN 0 ELSE x \div (2 ^ s)

\* for i := b; i <= e; i++ { bins = append(bins, uint16(i)) }
LevelBins(b, e) == [i \in 1..(e - b + 1) |-> ToUint16(b + i - 1)]

\* The loop over the levels l <= depth; "end" is already decremented.  After
\* the last level "s -= 3" may wrap around; that value of s is never used.
RECURSIVE BinsLevels(_, _, _, _, _, _, _)
BinsLevels(start, end, l, t, s, depth, acc) ==
    IF l > depth THEN acc
    ELSE LET b == t + Shr(start, s)
             e == t + Shr(end, s)
         IN  BinsLevels(start, end, l + 1, t + 2 ^ (l * 3), s - 3, depth,
                        acc \o LevelBins(b, e))

BinsForRange(start, end, minShift, depth) ==
    LET clamped == IF end = 0 \/ end > maximumReadLength
                   THEN maximumReadLength ELSE end
    IN  IF clamped <= start THEN <<>>
        ELSE IF start > maximumReadLength THEN <<>>
        ELSE BinsLevels(start, clamped - 1, 0, 0, minShift + depth * 3, depth, <<>>)

Region(referenceID, start, end) ==
    [ReferenceID |-> referenceID, Start |-> start, End |-> end]

\* A variant that lets a negative region.ReferenceID exclude references.
RegionContainsBinStrictReference(reg, referenceID, binID, candidates) ==
    IF referenceID # reg.ReferenceID THEN FALSE
    ELSE IF reg.Start = 0 /\ reg.End = 0 THEN TRUE
    ELSE \E i \in 1..Len(candidates) : candidates[i] = binID

RegionContainsBin(reg, referenceID, binID, candidates) ==
    IF reg.ReferenceID >= 0 /\ referenceID # reg.ReferenceID THEN FALSE
    ELSE IF reg.Start = 0 /\ reg.End = 0 THEN TRUE
    ELSE \E i \in 1..Len(candidates) : candidates[i] = binID

(***************************************************************************)
(* The two pure functions applied to drawn arguments.                      *)
(***************************************************************************)
MaxOutput == 80         \* longest slice BinsForRange is asked to build
MaxBinList == 2         \* longest candidate list handed to RegionContainsBin

Starts == {0, 1, 7, 8, 65536, 16384, 460177408, maximumReadLength - 1,
           maximumReadLength, maximumReadLength + 1}
Ends == {0, 1, 8, 9, 65537, 32768, 460177409, maximumReadLength,
         maximumReadLength + 1}
MinShifts == {0, 14, 23, 26}
Depths == {0, 1, 2, 5, 6}

\* The number of appends BinsForRange performs on these arguments.
RECURSIVE OutputSize(_, _, _, _, _)
OutputSize(start, end, l, s, depth) ==
    IF l > depth THEN 0
    ELSE Shr(end, s) - Shr(start, s) + 1 + OutputSize(start, end, l + 1, s - 3, depth)

\* The arguments drawn: BinsForRange addresses a tree of depth + 1 levels
\* that covers 2^(minShift + 3 * depth) positions, and the range asked for,
\* once clamped, lies inside the tree.
BinsInputs ==
    {in \in [start : Starts, end : Ends, minShift : MinShifts, depth : Depths] :
        LET clamped == IF in.end = 0 \/ in.end > maximumReadLength
                       THEN maximumReadLength ELSE in.end
            width == in.minShift + in.depth * 3
        IN  \/ clamped <= in.start
            \/ /\ width >= 29 \/ clamped <= 2 ^ width
               /\ OutputSize(in.start, clamped - 1, 0, width, in.depth) <= MaxOutput}

FilterInputs ==
    [region : {Region(r, s, e) : r \in {-1, 0, 1}, s \in {0, 5}, e \in {0, 9}},
     referenceID : {0, 1},
     binID : {0, 1, 9, 65537},
     bins : SeqsUpTo({0, 1, 9}, MaxBinList)]

NoBinsIn == [start |-> 0, end |-> 0, minShift |-> 0, depth |-> 0]
NoFilterIn == [region |-> Region(0, 0, 0), referenceID |-> 0, binID |-> 0, bins |-> <<>>]
BinsNotApplied == [applied |-> FALSE, value |-> <<>>]
FilterNotApplied == [applied |-> FALSE, value |-> FALSE]

PureIdle ==
    /\ binsIn = NoBinsIn
    /\ binsOut = BinsNotApplied
    /\ filterIn = NoFilterIn
    /\ filterOut = FilterNotApplied

BinsInit ==
    /\ binsIn \in BinsInputs
    /\ binsOut = BinsNotApplied
    /\ filterIn = NoFilterIn
    /\ filterOut = FilterNotApplied

FilterInit ==
    /\ binsIn = NoBinsIn
    /\ binsOut = BinsNotApplied
    /\ filterIn \in FilterInputs
    /\ filterOut = FilterNotApplied

BinsApply ==
    /\ ~binsOut.applied
    /\ binsOut' = [applied |-> TRUE,
                   value |-> BinsForRange(binsIn.start, binsIn.end,
                                          binsIn.minShift, binsIn.depth)]
    /\ UNCHANGED <<binsIn, filterIn, filterOut>>
    /\ UNCHANGED <<handleVars, readVars, refVars>>

FilterApply ==
    /\ ~filterOut.applied
    /\ filterOut' = [applied |-> TRUE,
                     value |-> RegionContainsBin(filterIn.region, filterIn.referenceID,
                                                 filterIn.binID, filterIn.bins)]
    /\ UNCHANGED <<binsIn, binsOut, filterIn>>
    /\ UNCHANGED <<handleVars, readVars, refVars>>

(***************************************************************************)
(* bcf.Read: the index decoder.  The index is read from the stream record  *)
(* by record; every value read is a choice of the file.                    *)
(***************************************************************************)
MaxRefs == 2            \* largest reference count read
MaxBins == 2            \* largest bin count read
MaxChunks == 2          \* largest chunk count of a bin read
MaxRecords == 2         \* most chunk records in one index

\* bgzf.LastAddress, the maximal virtual offset: no offset explored exceeds it.
LastAddress == MaxAddress

\* A two-level index over the whole coordinate range: bin 0 and bins 1..8,
\* each of the latter 2^26 positions wide.
IndexShapes == {[minShift |-> 26, depth |-> 1]}
\* Regions: every reference or reference 0, unconstrained or one half of
\* the coordinate range (the candidate bins are then 0 and 1, or 0 and 2..8).
ReadRegions == {Region(-1, 0, 0), Region(0, 0, 0),
                Region(0, 0, 67108864), Region(-1, 67108864, 0)}
BinIDs == {1, 2, MetadataBeanID}
BinOffsets == {0, 2}
ChunkValues == {Chunk(1, 1), Chunk(2, 3)}

NoBin == [ID |-> 0, Offset |-> 0, Chunks |-> 0]
NoShape == [minShift |-> 0, depth |-> 0]

ReadIdle ==
    /\ region = Region(0, 0, 0)
    /\ rpc = "idle"
    /\ shape = NoShape
    /\ bins = <<>>
    /\ refCount = 0
    /\ reference = 0
    /\ binCount = 0
    /\ j = 0
    /\ bin = NoBin
    /\ includeChunks = FALSE
    /\ k = 0
    /\ chunks = <<>>
    /\ seen = <<>>

ReadInit ==
    /\ region \in ReadRegions
    /\ rpc = "start"
    /\ shape = NoShape
    /\ bins = <<>>
    /\ refCount = 0
    /\ reference = 0
    /\ binCount = 0
    /\ j = 0
    /\ bin = NoBin
    /\ includeChunks = FALSE
    /\ k = 0
    /\ chunks = <<>>
    /\ seen = <<>>

\* A variant that treats the metadata bin as any other bin.
IsMetadataBinNever(b) == FALSE
\* if bin.ID == csi.MetadataBeanID { continue }
IsMetadataBin(b) == b.ID = MetadataBeanID

\* A variant without the test against the offset of the bin.
ShouldAppendIgnoringOffset(include, chunk, b) == include
\* includeChunks && (chunk.End >= bgzf.Address(bin.Offset))
ShouldAppend(include, chunk, b) == include /\ chunk.End >= b.Offset

\* A variant that puts the new chunk right after the header chunk.
AppendChunkAfterHeader(cs, chunk) == <<cs[1], chunk>> \o Tail(cs)
\* chunks = append(chunks, &chunk)
AppendChunk(cs, chunk) == Append(cs, chunk)

\* if header.End > chunk.Start { header.End = chunk.Start }; header is the
\* chunk chunks[0] points to.
NarrowHeader(cs, chunk) ==
    IF cs[1].End > chunk.Start THEN [cs EXCEPT ![1].End = chunk.Start] ELSE cs

\* header := &bgzf.Chunk{End: bgzf.LastAddress}; chunks := []*bgzf.Chunk{header}
InitialChunks == <<Chunk(0, LastAddress)>>

\* The body of the loop over k, after the chunk record is read.
ProcessChunk(cs, include, b, chunk) ==
    IF IsMetadataBin(b) THEN cs
    ELSE NarrowHeader(IF ShouldAppend(include, chunk, b)
                      THEN AppendChunk(cs, chunk) ELSE cs, chunk)

\* Magic, min_shift, depth, BinsForRange, the auxiliary data, the header
\* chunk and the reference count.
ReadHeader ==
    /\ rpc = "start"
    /\ \E sh \in IndexShapes, n \in 0..MaxRefs :
        /\ shape' = sh
        /\ bins' = BinsForRange(region.Start, region.End, sh.minShift, sh.depth)
        /\ refCount' = n
    /\ chunks' = InitialChunks
    /\ reference' = 0
    /\ rpc' = "ref"
    /\ UNCHANGED <<region, binCount, j, bin, includeChunks, k, seen>>
    /\ UNCHANGED <<handleVars, pureVars, refVars>>

\* reference < refCount: the bin count of the reference is read.
ReadReference ==
    /\ rpc = "ref"
    /\ reference < refCount
    /\ \E n \in 0..MaxBins : binCount' = n
    /\ j' = 0
    /\ rpc' = "bin"
    /\ UNCHANGED <<region, shape, bins, refCount, reference, bin, includeChunks,
                   k, chunks, seen>>
    /\ UNCHANGED <<handleVars, pureVars, refVars>>

\* The loop over the references ends: return chunks, nil.
ReadReturn ==
    /\ rpc = "ref"
    /\ reference >= refCount
    /\ rpc' = "done"
    /\ UNCHANGED <<region, shape, bins, refCount, reference, binCount, j, bin,
                   includeChunks, k, chunks, seen>>
    /\ UNCHANGED <<handleVars, pureVars, refVars>>

\* j < binCount: the bin header is read and the Bin Filter is applied.
ReadBin ==
    /\ rpc = "bin"
    /\ j < binCount
    /\ \E i \in BinIDs, o \in BinOffsets,
          n \in 0..Min(MaxChunks, MaxRecords - Len(seen)) :
        /\ bin' = [ID |-> i, Offset |-> o, Chunks |-> n]
        /\ includeChunks' = RegionContainsBin(region, reference, i, bins)
    /\ k' = 0
    /\ rpc' = "chunk"
    /\ UNCHANGED <<region, shape, bins, refCount, reference, binCount, j, chunks,
                   seen>>
    /\ UNCHANGED <<handleVars, pureVars, refVars>>

\* The loop over the bins of the reference ends; binCount and j go out of
\* scope.
ReadBinsEnd ==
    /\ rpc = "bin"
    /\ j >= binCount
    /\ reference' = reference + 1
    /\ binCount' = 0
    /\ j' = 0
    /\ rpc' = "ref"
    /\ UNCHANGED <<region, shape, bins, refCount, bin, includeChunks, k, chunks,
                   seen>>
    /\ UNCHANGED <<handleVars, pureVars, refVars>>

\* k < bin.Chunks: one chunk record is read and processed.
ReadChunk ==
    /\ rpc = "chunk"
    /\ k < bin.Chunks
    /\ \E c \in ChunkValues :
        /\ seen' = Append(seen, [reference |-> reference, bin |-> bin, chunk |-> c])
        /\ chunks' = ProcessChunk(chunks, includeChunks, bin, c)
    /\ k' = k + 1
    /\ UNCHANGED <<region, rpc, shape, bins, refCount, reference, binCount, j, bin,
                   includeChunks>>
    /\ UNCHANGED <<handleVars, pureVars, refVars>>

\* The loop over the chunks of the bin ends; bin, includeChunks and k go out
\* of scope.
ReadChunksEnd ==
    /\ rpc = "chunk"
    /\ k >= bin.Chunks
    /\ j' = j + 1
    /\ bin' = NoBin
    /\ includeChunks' = FALSE
    /\ k' = 0
    /\ rpc' = "bin"
    /\ UNCHANGED <<region, shape, bins, refCount, reference, binCount, chunks,
                   seen>>
    /\ UNCHANGED <<handleVars, pureVars, refVars>>

\* Any read may fail (the stream ends early): return nil and an error; the
\* locals are gone.
ReadFail ==
    /\ rpc \in {"start", "ref", "bin", "chunk"}
    /\ rpc = "ref" => reference < refCount
    /\ rpc = "bin" => j < binCount
    /\ rpc = "chunk" => k < bin.Chunks
    /\ rpc' = "error"
    /\ chunks' = <<>>
    /\ shape' = NoShape
    /\ bins' = <<>>
    /\ refCount' = 0
    /\ reference' = 0
    /\ binCount' = 0
    /\ j' = 0
    /\ bin' = NoBin
    /\ includeChunks' = FALSE
    /\ k' = 0
    /\ UNCHANGED <<region, seen>>
    /\ UNCHANGED <<handleVars, pureVars, refVars>>

ReadNext ==
    \/ ReadHeader \/ ReadReference \/ ReadReturn \/ ReadBin \/ ReadBinsEnd
    \/ ReadChunk \/ ReadChunksEnd \/ ReadFail

(***************************************************************************)
(* bcf.GetReferenceID, contigDefinesReference and getIdx.  A string is a   *)
(* sequence of one-character strings.                                      *)
(***************************************************************************)
MaxLines == 3           \* most lines in the header text

ContigPrefix ==
    <<"#", "#", "c", "o", "n", "t", "i", "g">>
IDField ==
    <<"I", "D", "=">>
IDXField ==
    <<"I", "D", "X", "=">>
NameChr1 ==
    <<"c", "h", "r", "1">>
NameChr10 ==
    <<"c", "h", "r", "1", "0">>
NameChrX ==
    <<"c", "h", "r", "X">>
LineFileformat ==
    <<"#", "#", "f", "i", "l", "e", "f", "o", "r", "m", "a", "t", "=", "V",
      "C", "F", "v", "4", ".", "2">>
LineChr1 ==
    <<"#", "#", "c", "o", "n", "t", "i", "g", "=", "<", "I", "D", "=", "c",
      "h", "r", "1", ",", "l", "e", "n", "g", "t", "h", "=", "5", ">">>
LineChr1Idx ==
    <<"#", "#", "c", "o", "n", "t", "i", "g", "=", "<", "I", "D", "=", "c",
      "h", "r", "1", ",", "l", "e", "n", "g", "t", "h", "=", "5", ",", "I",
      "D", "X", "=", "7", ">">>
LineChr10 ==
    <<"#", "#", "c", "o", "n", "t", "i", "g", "=", "<", "I", "D", "=", "c",
      "h", "r", "1", "0", ",", "l", "e", "n", "g", "t", "h", "=", "5", ">">>
LineChr2Idx ==
    <<"#", "#", "c", "o", "n", "t", "i", "g", "=", "<", "I", "D", "=", "c",
      "h", "r", "2", ",", "I", "D", "X", "=", "0", ",", "l", "e", "n", "g",
      "t", "h", "=", "5", ">">>
LineChr2Alt ==
    <<"#", "#", "c", "o", "n", "t", "i", "g", "=", "<", "I", "D", "=", "c",
      "h", "r", "2", ",", "a", "l", "t", "I", "D", "=", "c", "h", "r", "1",
      ">">>

HeaderLines == {LineFileformat, LineChr1, LineChr1Idx, LineChr10, LineChr2Idx,
                LineChr2Alt}
ReferenceNames == {NameChr1, NameChr10, NameChrX}

\* The header text of a sequence of lines: each line ends with a line feed.
RECURSIVE JoinLines(_)
JoinLines(ls) == IF ls = <<>> THEN <<>> ELSE Head(ls) \o <<"\n">> \o JoinLines(Tail(ls))

\* io.LimitReader(gzr, int64(length))
LimitReader(text, n) == SubSeq(text, 1, Min(n, Len(text)))

\* strings.Index: the 0-based position of the first occurrence, or -1.
Index(s, sub) ==
    LET at == {i \in 0..(Len(s) - Len(sub)) : SubSeq(s, i + 1, i + Len(sub)) = sub}
    IN  IF at = {} THEN -1 ELSE CHOOSE i \in at : \A i2 \in at : i <= i2

\* strings.HasPrefix
HasPrefix(s, prefix) == Len(s) >= Len(prefix) /\ SubSeq(s, 1, Len(prefix)) = prefix

\* bufio.Scanner with the default split function: the lines of the text,
\* without their line feeds; a last line without a line feed is returned too.
RECURSIVE ScanLines(_)
ScanLines(text) ==
    IF text = <<>> THEN <<>>
    ELSE LET nl == Index(text, <<"\n">>)
         IN  IF nl = -1 THEN <<text>>
             ELSE <<SubSeq(text, 1, nl)>> \o ScanLines(SubSeq(text, nl + 2, Len(text)))

Digits == <<"0", "1", "2", "3", "4", "5", "6", "7", "8", "9">>
IsDigit(c) == \E d \in 1..10 : Digits[d] = c
DigitValue(c) == (CHOOSE d \in 1..10 : Digits[d] = c) - 1

RECURSIVE DecimalValue(_, _)
DecimalValue(s, acc) ==
    IF s = <<>> THEN acc ELSE DecimalValue(Tail(s), acc * 10 + DigitValue(Head(s)))

\* strconv.Atoi: an optional sign and at least one digit, nothing else.
Atoi(s) ==
    LET signed == s # <<>> /\ Head(s) \in {"+", "-"}
        digits == IF signed THEN Tail(s) ELSE s
    IN  IF digits = <<>> \/ \E i \in 1..Len(digits) : ~IsDigit(digits[i])
        THEN [ok |-> FALSE, value |-> 0]
        ELSE [ok |-> TRUE,
              value |-> IF signed /\ Head(s) = "-"
                        THEN 0 - DecimalValue(digits, 0) ELSE DecimalValue(digits, 0)]

\* contigDefinesReference: "true", "false", or "panic" when the byte after
\* the name is read past the end of the line.
contigDefinesReference(contig, refName) ==
    LET at == Index(contig, IDField \o refName)
        next == at + Len(IDField) + Len(refName)
    IN  IF at = -1 THEN "false"
        ELSE IF next >= Len(contig) THEN "panic"
        ELSE IF contig[next + 1] # "," /\ contig[next + 1] # ">" THEN "false"
        ELSE "true"

\* The bytes from position "from" (0-based) up to the first ',' or '>'.
RECURSIVE FieldValue(_, _)
FieldValue(contig, from) ==
    IF from >= Len(contig) THEN <<>>
    ELSE IF contig[from + 1] = "," \/ contig[from + 1] = ">" THEN <<>>
    ELSE <<contig[from + 1]>> \o FieldValue(contig, from + 1)

\* getIdx: (idx, err)
getIdx(contig) ==
    LET at == Index(contig, IDXField)
    IN  IF at = -1 THEN [idx |-> -1, err |-> FALSE]
        ELSE LET parsed == Atoi(FieldValue(contig, at + Len(IDXField)))
             IN  IF ~parsed.ok THEN [idx |-> -1, err |-> TRUE]
                 ELSE [idx |-> parsed.value, err |-> FALSE]

\* What GetReferenceID returns: an id, or an error of some kind.
ReferenceID(n) == [kind |-> "id", id |-> n]
ReferenceError(what) == [kind |-> what, id |-> 0]
NoReference == [kind |-> "none", id |-> 0]

\* The lines the scanner returns from the limited header reader.
Lines == ScanLines(LimitReader(headerText, length))

RefIdle ==
    /\ headerText = <<>>
    /\ length = 0
    /\ referenceName = <<>>
    /\ gpc = "idle"
    /\ scanned = 0
    /\ id = 0
    /\ contigsFound = FALSE
    /\ refResult = NoReference

\* The header text is a sequence of complete lines; the declared length ends
\* it after one of them.
RefInit ==
    /\ \E ls \in SeqsUpTo(HeaderLines, MaxLines) :
        /\ headerText = JoinLines(ls)
        /\ \E n \in 0..Len(ls) : length = Len(JoinLines(SubSeq(ls, 1, n)))
    /\ referenceName \in ReferenceNames
    /\ gpc = "start"
    /\ scanned = 0
    /\ id = 0
    /\ contigsFound = FALSE
    /\ refResult = NoReference

\* gzip.NewReader, the magic and the header length: each may fail.
RefOpen ==
    /\ gpc = "start"
    /\ \E ok \in BOOLEAN :
        IF ok THEN /\ gpc' = "scan"
                   /\ refResult' = refResult
              ELSE /\ gpc' = "done"
                   /\ refResult' = ReferenceError("read error")
    /\ UNCHANGED <<headerText, length, referenceName, scanned, id, contigsFound>>
    /\ UNCHANGED <<handleVars, pureVars, readVars>>

\* One iteration of "for scanner.Scan()".
RefScan ==
    /\ gpc = "scan"
    /\ scanned < Len(Lines)
    /\ scanned' = scanned + 1
    /\ LET line == Lines[scanned + 1] IN
       IF HasPrefix(line, ContigPrefix)
       THEN /\ contigsFound' = TRUE
            /\ LET defines == contigDefinesReference(line, referenceName)
                   got == getIdx(line)
               IN  IF defines = "panic"
                   THEN /\ refResult' = ReferenceError("panic")
                        /\ gpc' = "done"
                        /\ id' = id
                   ELSE IF defines = "true"
                   THEN /\ refResult' = IF got.err THEN ReferenceError("getting idx")
                                        ELSE IF got.idx > -1 THEN ReferenceID(got.idx)
                                        ELSE ReferenceID(id)
                        /\ gpc' = "done"
                        /\ id' = id
                   ELSE /\ refResult' = refResult
                        /\ gpc' = "scan"
                        /\ id' = id + 1
       ELSE /\ contigsFound' = contigsFound
            /\ id' = id
            /\ IF contigsFound
               THEN /\ refResult' = ReferenceError("not found")
                    /\ gpc' = "done"
               ELSE /\ refResult' = refResult
                    /\ gpc' = "scan"
    /\ UNCHANGED <<headerText, length, referenceName>>
    /\ UNCHANGED <<handleVars, pureVars, readVars>>

\* The scanner has no more lines: "region id not found".
RefEnd ==
    /\ gpc = "scan"
    /\ scanned >= Len(Lines)
    /\ refResult' = ReferenceError("not found")
    /\ gpc' = "done"
    /\ UNCHANGED <<headerText, length, referenceName, scanned, id, contigsFound>>
    /\ UNCHANGED <<handleVars, pureVars, readVars>>

RefNext == RefOpen \/ RefScan \/ RefEnd

(***************************************************************************)
(* The specifications.                                                     *)
(***************************************************************************)
SpecHandleInit == HandleInit /\ PureIdle /\ ReadIdle /\ RefIdle
SpecHandle == SpecHandleInit /\ [][HandleNext]_vars
SpecBinsInit == HandleIdle /\ BinsInit /\ ReadIdle /\ RefIdle
SpecBins == SpecBinsInit /\ [][BinsApply]_vars
SpecFilterInit == HandleIdle /\ FilterInit /\ ReadIdle /\ RefIdle
SpecFilter == SpecFilterInit /\ [][FilterApply]_vars
SpecReadInit == HandleIdle /\ PureIdle /\ ReadInit /\ RefIdle
SpecRead == SpecReadInit /\ [][ReadNext]_vars
SpecRefInit == HandleIdle /\ PureIdle /\ ReadIdle /\ RefInit
SpecRef == SpecRefInit /\ [][RefNext]_vars

(***************************************************************************)
(* Claims about chunksRequest.handle (SpecHandle).                         *)
(***************************************************************************)
AllCandidatesFail == \A i \in 1..Len(indexObjects) : ~indexObjects[i]

\* C1: handle opens the candidates in list order, one at a time, and stops
\* at the first that opens: that candidate's stream is the one the decoder
\* gets and no later candidate is opened.  If every candidate fails to open,
\* handle returns a storage-access error wrapping the error of the last
\* candidate tried and the decoder is never invoked.
C1_OpensInOrderUntilFirstSuccess ==
    /\ \A i \in 1..Len(opened) : opened[i] = i
    /\ \A i \in 1..(Len(opened) - 1) : ~indexObjects[opened[i]]
    /\ \A i \in 1..Len(readWith) :
          /\ readWith[i] # NilReader
          /\ indexObjects[readWith[i].reader]
          /\ readWith[i].reader = opened[Len(opened)]
    /\ (hpc = "done" /\ AllCandidatesFail) =>
          /\ result.kind = "storageError"
          /\ Len(indexObjects) > 0 => result.wraps = [openFailed |-> Len(indexObjects)]
          /\ readWith = <<>>

\* The part of C1 that the code keeps: the same statement for requests that
\* name at least one candidate.
C1_HoldsWithACandidate == Len(indexObjects) > 0 => C1_OpensInOrderUntilFirstSuccess

\* C2: when the decoder returns an error on the opened stream, handle
\* returns an error wrapping that decode error and no chunk list; it opens
\* no further candidate and does not apply Chunk Merge.
C2_DecodeErrorIsReturnedWithoutRetry ==
    readOutcome.err = "decode" =>
        /\ hpc = "done"
        /\ result = [kind |-> "readError", wraps |-> readOutcome.err]
        /\ merged = <<>>
        /\ Len(readWith) = 1
        /\ opened[Len(opened)] = readWith[1].reader
        /\ \A i \in 1..Len(opened) : opened[i] <= readWith[1].reader

\* C2 witness: the decoder failed on the first candidate's stream while a
\* second candidate, which would open, was left alone.
C2_Witness ==
    /\ hpc = "done"
    /\ readOutcome.err = "decode"
    /\ Len(indexObjects) = 2
    /\ indexObjects[2]
    /\ opened = <<1>>

\* The gap between two chunks: how far the second starts after the first ends.
Gap(a, b) == b.Start - a.End

\* C9: every chunk list handle returns on success is the Chunk Merge of the
\* decoder's output under blockSizeLimit: sorted by start offset, no two of
\* its elements within the limit of each other (two input chunks whose gap
\* exceeds the limit stay separate, two within it are coalesced), and
\* merging it again with the same limit leaves it unchanged.
C9_ReturnedListIsMerged ==
    result.kind = "ok" =>
        LET out == result.chunks
            in == readOutcome.chunks
        IN  /\ out = Merge(in, blockSizeLimit)
            /\ \A a \in 1..Len(out), b \in 1..Len(out) :
                  a < b => /\ out[a].Start <= out[b].Start
                           /\ Gap(out[a], out[b]) > blockSizeLimit
            /\ Len(in) = 2 =>
                  LET first == IF ChunkBefore(in[1], in[2]) THEN in[1] ELSE in[2]
                      second == IF ChunkBefore(in[1], in[2]) THEN in[2] ELSE in[1]
                  IN  (Len(out) = 2) <=> (Gap(first, second) > blockSizeLimit)
            /\ Merge(out, blockSizeLimit) = out

\* C9 witness: an unsorted decoder output of three chunks, of which two were
\* coalesced and one stayed separate.
C9_Witness ==
    /\ result.kind = "ok"
    /\ Len(readOutcome.chunks) = 3
    /\ readOutcome.chunks[1].Start > readOutcome.chunks[2].Start
    /\ Len(result.chunks) = 2
    /\ blockSizeLimit = 1

\* C11: for every candidate list, the empty list included, handle invokes
\* the decoder only with a stream that some candidate opened successfully
\* during this call; when no candidate has opened successfully it returns a
\* storage-access error, does not invoke the decoder and does not close a
\* stream that was never opened.
C11_DecoderGetsOnlyAnOpenedStream ==
    /\ \A i \in 1..Len(readWith) :
          /\ readWith[i] # NilReader
          /\ \E n \in 1..Len(opened) :
                opened[n] = readWith[i].reader /\ indexObjects[opened[n]]
    /\ \A i \in 1..Len(closed) : closed[i] # NilReader
    /\ (hpc = "done" /\ AllCandidatesFail) =>
          /\ result.kind = "storageError"
          /\ readWith = <<>>
          /\ closed = <<>>

\* The part of C11 that the code keeps: the same statement for requests
\* that name at least one candidate.
C11_HoldsWithACandidate == Len(indexObjects) > 0 => C11_DecoderGetsOnlyAnOpenedStream

(***************************************************************************)
(* Claims about the index decoder bcf.Read (SpecRead).                     *)
(***************************************************************************)
MinOf(S) == CHOOSE m \in S : \A x \in S : m <= x

\* The candidate bins of the decode: binsForRange of the region and of the
\* shift and depth read from the index.
CandidateBins == BinsForRange(region.Start, region.End, shape.minShift, shape.depth)

\* The three conditions under which the chunk of record r is to be emitted.
MustEmit(r) ==
    /\ r.bin.ID # 37450
    /\ RegionContainsBin(region, r.reference, r.bin.ID, CandidateBins)
    /\ r.chunk.End >= r.bin.Offset

\* C3: the decoder emits a chunk record into the result if and only if the
\* bin id is not the metadata bin id 37450, the bin passes the Bin Filter
\* and chunk.end >= bin.offset; chunks of a metadata bin are never emitted,
\* not even for an unconstrained region.  Stated of every step that reads a
\* chunk record: the record is appended to the result exactly in that case,
\* and the result keeps its length otherwise.
C3_EmitsExactlyRelevantChunks ==
    [][Len(seen') = Len(seen) + 1 =>
        LET r == seen'[Len(seen')]
        IN  IF MustEmit(r)
            THEN /\ Len(chunks') = Len(chunks) + 1
                 /\ chunks'[Len(chunks')] = r.chunk
            ELSE Len(chunks') = Len(chunks)]_vars

\* C3 witness: after a decode for an unconstrained region, one record was
\* emitted and a record of the metadata bin was not.
C3_Witness ==
    /\ rpc = "done"
    /\ region.Start = 0 /\ region.End = 0 /\ region.ReferenceID = -1
    /\ Len(seen) = 2
    /\ seen[1].bin.ID = MetadataBeanID
    /\ seen[2].bin.ID # MetadataBeanID
    /\ seen[2].chunk.End >= seen[2].bin.Offset
    /\ Len(chunks) = 2

\* C4: after a successful decode the header chunk is {0, min(maximal
\* offset, start of every chunk record of every non-metadata bin)}, whether
\* or not the record was emitted; metadata-bin chunks never narrow it; an
\* index with reference count 0 yields exactly the chunk {0, maximal offset}.
C4_HeaderEndsAtFirstDataChunk ==
    rpc = "done" =>
        /\ chunks[1] = Chunk(0, MinOf({LastAddress} \cup
                                {seen[i].chunk.Start :
                                    i \in {n \in 1..Len(seen) : seen[n].bin.ID # 37450}}))
        /\ refCount = 0 => chunks = <<Chunk(0, LastAddress)>>

\* C4 witness: the header was narrowed by a record that was not emitted,
\* while a metadata-bin record with a smaller start left it alone.
C4_Witness ==
    /\ rpc = "done"
    /\ Len(seen) = 2
    /\ Len(chunks) = 1
    /\ \E m \in 1..2, d \in 1..2 :
        /\ seen[m].bin.ID = MetadataBeanID
        /\ seen[d].bin.ID # MetadataBeanID
        /\ seen[m].chunk.Start < seen[d].chunk.Start
        /\ chunks[1].End = seen[d].chunk.Start

\* The chunks of the records to be emitted, in the order they were read.
RECURSIVE EmittedInOrder(_)
EmittedInOrder(records) ==
    IF records = <<>> THEN <<>>
    ELSE (IF MustEmit(Head(records)) THEN <<Head(records).chunk>> ELSE <<>>)
         \o EmittedInOrder(Tail(records))

\* C5: the list a successful decode returns has the header chunk first,
\* followed by exactly the emitted chunks in the order their records are
\* met in the index (reference, then bin, then chunk order), none reordered,
\* merged or dropped.
C5_HeaderFirstThenFileOrder ==
    rpc = "done" =>
        /\ Len(chunks) >= 1
        /\ chunks[1].Start = 0
        /\ Tail(chunks) = EmittedInOrder(seen)

\* C5 witness: two chunks of different references were emitted, the one
\* read first having the larger start.
C5_Witness ==
    /\ rpc = "done"
    /\ Len(chunks) = 3
    /\ Len(seen) = 2
    /\ seen[1].reference < seen[2].reference
    /\ chunks[2].Start > chunks[3].Start

(***************************************************************************)
(* Claims about BinsForRange (SpecBins) and RegionContainsBin (SpecFilter).*)
(***************************************************************************)
\* The cumulative bin-id base of level l: the sum of 8^k for k < l.
RECURSIVE LevelBase(_)
LevelBase(l) == IF l = 0 THEN 0 ELSE LevelBase(l - 1) + 8 ^ (l - 1)

\* The reference definition of the bins of [start, end).
ReferenceBins(start, end, minShift, depth) ==
    LET e == IF end = 0 \/ end > 2 ^ 29 THEN 2 ^ 29 ELSE end
    IN  IF start >= e \/ start > 2 ^ 29 THEN {}
        ELSE UNION {
               LET s == minShift + (depth - l) * 3
               IN  {LevelBase(l) + x : x \in Shr(start, s)..Shr(e - 1, s)}
               : l \in 0..depth}

\* C6: BinsForRange equals the reference definition for every input: after
\* clamping end to 2^29, the result is empty when start >= end, and holds
\* otherwise exactly the ids t_l + (start >> s_l) .. t_l + ((end-1) >> s_l)
\* of every level l in 0..depth, and no other id.
C6_BinsMatchReferenceDefinition ==
    binsOut.applied =>
        Range(binsOut.value)
            = ReferenceBins(binsIn.start, binsIn.end, binsIn.minShift, binsIn.depth)

\* C7: the collection BinsForRange returns is deduplicated: no 16-bit bin
\* id appears in it more than once.
C7_BinsAreDeduplicated ==
    binsOut.applied =>
        \A a \in 1..Len(binsOut.value), b \in 1..Len(binsOut.value) :
            a # b => binsOut.value[a] # binsOut.value[b]

\* C8: RegionContainsBin returns false whenever region.ReferenceID >= 0 and
\* referenceID differs from it; otherwise true for every binID when
\* region.Start = 0 and region.End = 0, whatever bins holds; otherwise true
\* exactly when binID is an element of bins, in any order.  A negative
\* region.ReferenceID excludes no reference.
C8_BinFilterDecision ==
    filterOut.applied =>
        LET reg == filterIn.region
            wrongReference == reg.ReferenceID >= 0 /\ filterIn.referenceID # reg.ReferenceID
            unconstrained == reg.Start = 0 /\ reg.End = 0
        IN  /\ wrongReference => filterOut.value = FALSE
            /\ (~wrongReference /\ unconstrained) => filterOut.value = TRUE
            /\ (~wrongReference /\ ~unconstrained) =>
                  (filterOut.value <=> filterIn.binID \in Range(filterIn.bins))

\* C8 witness: a region for all references (negative id) with a start
\* constraint accepted a bin that is the second element of bins only.
C8_Witness ==
    /\ filterOut.applied
    /\ filterIn.region.ReferenceID < 0
    /\ filterIn.referenceID = 1
    /\ filterIn.region.Start # 0
    /\ Len(filterIn.bins) = 2
    /\ filterIn.bins[1] # filterIn.binID
    /\ filterIn.bins[2] = filterIn.binID
    /\ filterOut.value = TRUE

(***************************************************************************)
(* The claim about bcf.GetReferenceID (SpecRef).                           *)
(***************************************************************************)
\* The pieces of s between the separators sep.
RECURSIVE SplitOn(_, _)
SplitOn(s, sep) ==
    LET at == Index(s, <<sep>>)
    IN  IF at = -1 THEN <<s>>
        ELSE <<SubSeq(s, 1, at)>> \o SplitOn(SubSeq(s, at + 2, Len(s)), sep)

\* The fields of a contig declaration: the comma-separated key=value pairs
\* between '<' and the closing '>'.
DeclarationFields(line) ==
    LET open == Index(line, <<"<">>)
        close == Index(line, <<">">>)
    IN  IF open = -1 \/ close = -1 \/ close < open THEN <<>>
        ELSE SplitOn(SubSeq(line, open + 2, close), ",")

\* The value of the field named key in the declaration, as a set: empty when
\* the declaration has no such field.
FieldNamed(line, key) ==
    LET fields == DeclarationFields(line)
    IN  {SubSeq(fields[i], Len(key) + 2, Len(fields[i])) :
            i \in {n \in 1..Len(fields) : HasPrefix(fields[n], key \o <<"=">>)}}

\* What the claim says GetReferenceID returns on these lines, "count" contig
\* declarations having been seen.
RECURSIVE ClaimedReference(_, _, _)
ClaimedReference(ls, name, count) ==
    IF ls = <<>> THEN ReferenceError("not found")
    ELSE IF HasPrefix(Head(ls), ContigPrefix)
    THEN IF name \in FieldNamed(Head(ls), <<"I", "D">>)
         THEN LET idx == FieldNamed(Head(ls), <<"I", "D", "X">>)
              IN  IF idx = {} THEN ReferenceID(count)
                  ELSE ReferenceID(Atoi(CHOOSE v \in idx : TRUE).value)
         ELSE ClaimedReference(Tail(ls), name, count + 1)
    ELSE IF count > 0 THEN ReferenceError("not found")
    ELSE ClaimedReference(Tail(ls), name, count)

\* C10: GetReferenceID scans the header lines in file order and, at the
\* first contig declaration whose ID field equals referenceName exactly as a
\* delimited token, returns that line's IDX value if it has an IDX field and
\* otherwise the 0-based count of contig declarations seen before it; when
\* the block of contig declarations ends without a match it returns a
\* not-found error.
C10_ResolvesByIDField ==
    (gpc = "done" /\ refResult.kind # "read error") =>
        refResult = ClaimedReference(Lines, referenceName, 0)

====
